---------------------------- MODULE Spec2Model ----------------------------
(***************************************************************************)
(* Scoring & suggestion engine of the sustainability-score service:        *)
(* parse_weights (app.py), clamp / normalize_bad / normalize_good /        *)
(* compute_score / map_rating (scoring.py), rule_based_suggestions         *)
(* (suggestions.py) and the static configuration (config.py).              *)
(*                                                                         *)
(* Python floats are modelled as exact rationals [n, d] in lowest terms    *)
(* with d > 0; text is modelled as a sequence of one-character strings.    *)
(* A call that lets an exception escape returns the value Raised.          *)
(***************************************************************************)
EXTENDS Integers, Sequences, FiniteSets, TLC

VARIABLES
  pc,               \* "idle", or the name of the function that has just run
  args,             \* its arguments
  locals,           \* its local variables at the return statement
  ret,              \* its return value
  DEFAULT_WEIGHTS,  \* config.DEFAULT_WEIGHTS, the module-level dict
  RULES,            \* suggestions.RULES, the module-level list
  db                \* the product_scores table, its rows in insertion order

vars == <<pc, args, locals, ret, DEFAULT_WEIGHTS, RULES, db>>

config == <<DEFAULT_WEIGHTS, RULES>>

(***************************************************************************)
(* Bounds of the explored inputs.                                          *)
(***************************************************************************)
MaxWeightNum == 2
MaxCeiling == 4
ScoreSpread == 2

(***************************************************************************)
(* Float arithmetic (exact rationals).                                     *)
(***************************************************************************)
Abs(x) == IF x < 0 THEN -x ELSE x

RECURSIVE GCD(_, _)
GCD(a, b) == IF b = 0 THEN a ELSE GCD(b, a % b)

\* n / d in lowest terms with a positive denominator
Reduce(n, d, g) == [n |-> n \div g, d |-> d \div g]

Rat(n, d) ==
  IF d < 0 THEN Reduce(-n, -d, GCD(Abs(n), Abs(d)))
  ELSE Reduce(n, d, GCD(Abs(n), Abs(d)))

Zero == [n |-> 0, d |-> 1]
One == [n |-> 1, d |-> 1]
Hundred == [n |-> 100, d |-> 1]

RAdd(x, y) == Rat(x.n * y.d + y.n * x.d, x.d * y.d)
RSub(x, y) == Rat(x.n * y.d - y.n * x.d, x.d * y.d)
RMul(x, y) == Rat(x.n * y.n, x.d * y.d)
RLeq(x, y) == x.n * y.d <= y.n * x.d
RLt(x, y) == x.n * y.d < y.n * x.d
RIsZero(x) == x.n = 0

\* The outcome of an expression that may raise: a value or an exception.
Ok(v) == [ok |-> TRUE, v |-> v]
Exc == [ok |-> FALSE, v |-> Zero]

\* x / y : ZeroDivisionError when y == 0
RDiv(x, y) == IF RIsZero(y) THEN Exc ELSE Ok(Rat(x.n * y.d, x.d * y.n))

(***************************************************************************)
(* float(value) on a JSON value or a query-string value.                   *)
(***************************************************************************)
Digits == {"0", "1", "2", "3", "4", "5", "6", "7", "8", "9"}

DigitVal(c) ==
  CASE c = "0" -> 0 [] c = "1" -> 1 [] c = "2" -> 2 [] c = "3" -> 3
    [] c = "4" -> 4 [] c = "5" -> 5 [] c = "6" -> 6 [] c = "7" -> 7
    [] c = "8" -> 8 [] c = "9" -> 9

RECURSIVE Pow10(_)
Pow10(k) == IF k = 0 THEN 1 ELSE 10 * Pow10(k - 1)

RECURSIVE DigitsVal(_)
DigitsVal(s) ==
  IF s = <<>> THEN 0
  ELSE 10 * DigitsVal(SubSeq(s, 1, Len(s) - 1)) + DigitVal(s[Len(s)])

RECURSIVE LStrip(_)
LStrip(s) == IF s # <<>> /\ Head(s) = " " THEN LStrip(Tail(s)) ELSE s

RECURSIVE RStrip(_)
RStrip(s) ==
  IF s # <<>> /\ s[Len(s)] = " " THEN RStrip(SubSeq(s, 1, Len(s) - 1)) ELSE s

Strip(s) == RStrip(LStrip(s))

AllDigits(s) == \A i \in 1..Len(s) : s[i] \in Digits

\* the digits before and after the point, read as a number
FloatOfParts(ip, fp, neg) ==
  IF ~(AllDigits(ip) /\ AllDigits(fp) /\ Len(ip) + Len(fp) >= 1) THEN Exc
  ELSE Ok(Rat((IF neg THEN -1 ELSE 1)
                * (DigitsVal(ip) * Pow10(Len(fp)) + DigitsVal(fp)),
              Pow10(Len(fp))))

\* split at the point, when there is at most one
FloatOfBody(body, dots, neg) ==
  IF Cardinality(dots) > 1 THEN Exc
  ELSE IF dots = {} THEN FloatOfParts(body, <<>>, neg)
  ELSE FloatOfParts(SubSeq(body, 1, (CHOOSE i \in dots : TRUE) - 1),
                    SubSeq(body, (CHOOSE i \in dots : TRUE) + 1, Len(body)),
                    neg)

FloatOfUnsigned(body, neg) ==
  FloatOfBody(body, {i \in 1..Len(body) : body[i] = "."}, neg)

FloatOfStripped(t) ==
  IF t # <<>> /\ Head(t) \in {"-", "+"}
  THEN FloatOfUnsigned(Tail(t), Head(t) = "-")
  ELSE FloatOfUnsigned(t, FALSE)

\* float(str): optional blanks, optional sign, digits with at most one point
FloatOfStr(s) == FloatOfStripped(Strip(s))

\* A JSON / query value: a number, a text, null or a list.
Num(n, d) == [t |-> "num", v |-> Rat(n, d), s |-> <<>>]
Str(s) == [t |-> "str", v |-> Zero, s |-> s]
Null == [t |-> "null", v |-> Zero, s |-> <<>>]
List == [t |-> "list", v |-> Zero, s |-> <<>>]
Absent == [t |-> "absent", v |-> Zero, s |-> <<>>]

\* float(x): a number converts, a text is parsed, None and lists raise TypeError
Float(x) ==
  CASE x.t = "num" -> Ok(x.v)
    [] x.t = "str" -> FloatOfStr(x.s)
    [] OTHER -> Exc

(***************************************************************************)
(* config.py                                                               *)
(***************************************************************************)
KeySet == {"gwp", "circularity", "cost"}

GWP_MAX == Rat(50, 1)
COST_MAX == Rat(100, 1)
CIRCULARITY_MAX == Rat(100, 1)

DefaultWeightsInit ==
  [gwp |-> Rat(5, 10), circularity |-> Rat(3, 10), cost |-> Rat(2, 10)]

(***************************************************************************)
(* app.py : parse_weights                                                  *)
(***************************************************************************)
\* sum(weights.values())
SumValues(w) == RAdd(RAdd(w.gwp, w.circularity), w.cost)

\* variant: the except branch resets the weight instead of keeping it
TryAssign_ResetOnError(chosen, key, f) ==
  [chosen EXCEPT ![key] = IF f.ok THEN f.v ELSE Zero]

\* try: chosen[key] = f  except Exception: pass    (f is float(value))
TryAssign(chosen, key, f) ==
  IF f.ok THEN [chosen EXCEPT ![key] = f.v] ELSE chosen

\* first loop: only when payload_weights is a dict, only for the keys in it
MergePayload(chosen, payload_weights) ==
  IF ~payload_weights.isdict THEN chosen
  ELSE LET step(c, key) ==
             IF payload_weights.m[key].t # "absent"
             THEN TryAssign(c, key, Float(payload_weights.m[key]))
             ELSE c
       IN  step(step(step(chosen, "gwp"), "circularity"), "cost")

\* second loop: the w_<key> entries of the query string
MergeQuery(chosen, query_args) ==
  LET step(c, key) ==
        IF query_args[key].t # "absent"
        THEN TryAssign(c, key, Float(query_args[key]))
        ELSE c
  IN  step(step(step(chosen, "gwp"), "circularity"), "cost")

\* variant: the two loops in the other order, payload weights win
chosen_weights_PayloadLast(defaults, payload_weights, query_args) ==
  MergePayload(MergeQuery(defaults, query_args), payload_weights)

chosen_weights(defaults, payload_weights, query_args) ==
  MergeQuery(MergePayload(defaults, payload_weights), query_args)

\* x or 1.0 : a float is falsy only when it equals zero
OrOne(x) == IF RIsZero(x) THEN One ELSE x

\* variant: the fallback also taken for a negative sum
total_weight_sum_NonPositive(w) ==
  IF RLeq(SumValues(w), Zero) THEN One ELSE SumValues(w)

\* sum(chosen_weights.values()) or 1.0
total_weight_sum(w) == OrOne(SumValues(w))

Raised == [raised |-> TRUE]

\* {key: value / total for key, value in weights.items()}
Quotients(w, total) == [k \in KeySet |-> RDiv(w[k], total)]

Normalized(q) ==
  IF \E k \in KeySet : ~q[k].ok THEN Raised
  ELSE [raised |-> FALSE, w |-> [k \in KeySet |-> q[k].v]]

normalized_weights(w, total) == Normalized(Quotients(w, total))

\* the locals of parse_weights at its return statement
ParseLocals(chosen, total) ==
  [chosen_weights |-> chosen,
   total_weight_sum |-> total,
   normalized_weights |-> normalized_weights(chosen, total)]

ParseNormalize(chosen) == ParseLocals(chosen, total_weight_sum(chosen))

parse_weights_locals(defaults, payload_weights, query_args) ==
  ParseNormalize(chosen_weights(defaults, payload_weights, query_args))

parse_weights(defaults, payload_weights, query_args) ==
  parse_weights_locals(defaults, payload_weights, query_args).normalized_weights

(***************************************************************************)
(* scoring.py                                                              *)
(***************************************************************************)
RMin(x, y) == IF RLt(y, x) THEN y ELSE x
RMax(x, y) == IF RLt(x, y) THEN y ELSE x

\* variant: the upper bound is not applied
clamp_NoUpper(value, lower_bound, upper_bound) == RMax(lower_bound, value)

clamp(value, lower_bound, upper_bound) ==
  RMax(lower_bound, RMin(upper_bound, value))

\* (1 - q) * 100.0, q the quotient clamped / max
Inverted(q) == IF ~q.ok THEN Exc ELSE Ok(RMul(RSub(One, q.v), Hundred))

\* q * 100.0
Scaled(q) == IF ~q.ok THEN Exc ELSE Ok(RMul(q.v, Hundred))

\* variant: the inversion "1 -" is missing
normalize_bad_NoInvert(raw_value, max_value) ==
  IF RLeq(max_value, Zero) THEN Ok(Hundred)
  ELSE Scaled(RDiv(clamp(raw_value, Zero, max_value), max_value))

normalize_bad(raw_value, max_value) ==
  IF RLeq(max_value, Zero) THEN Ok(Hundred)
  ELSE Inverted(RDiv(clamp(raw_value, Zero, max_value), max_value))

normalize_good(raw_value, max_value) ==
  IF RLeq(max_value, Zero) THEN Ok(Hundred)
  ELSE Scaled(RDiv(clamp(raw_value, Zero, max_value), max_value))

\* variant: truncation to two decimals instead of rounding
Round2_Truncate(x) == Rat((x.n * 100) \div x.d, 100)

\* q hundredths and a remainder r out of d: nearest, a tie to the even one
NearestEven(q, r, d) ==
  IF 2 * r < d THEN q
  ELSE IF 2 * r > d THEN q + 1
  ELSE IF q % 2 = 0 THEN q ELSE q + 1

\* round(x, 2): to the nearest hundredth, a tie goes to the even hundredth
Round2(x) ==
  Rat(NearestEven((x.n * 100) \div x.d, (x.n * 100) % x.d, x.d), 100)

\* sum(weights.values()) or 1.0 in compute_score
score_total_weight_sum(w) == OrOne(SumValues(w))

\* step 3 and the return value, from the sub-scores (gwp, circularity,
\* cost) and the normalized weights
ScoreLocals(gwp_sub, circ_sub, cost_sub, total, nw, overall_score) ==
  [raised |-> FALSE,
   total_weight_sum |-> total,
   normalized_weights |-> nw,
   overall_score |-> overall_score,
   final_score |-> Round2(overall_score),
   subscore_dict |-> [gwp |-> gwp_sub,
                      circularity |-> circ_sub,
                      cost |-> cost_sub]]

WeightedScore(gwp_sub, circ_sub, cost_sub, total, nw) ==
  IF ~gwp_sub.ok \/ ~circ_sub.ok \/ ~cost_sub.ok \/ nw.raised
  THEN Raised
  ELSE ScoreLocals(gwp_sub.v, circ_sub.v, cost_sub.v, total, nw.w,
                   RAdd(RAdd(RMul(gwp_sub.v, nw.w.gwp),
                             RMul(circ_sub.v, nw.w.circularity)),
                        RMul(cost_sub.v, nw.w.cost)))

ScoreWithTotal(gwp_sub, circ_sub, cost_sub, weights, total) ==
  WeightedScore(gwp_sub, circ_sub, cost_sub, total,
                normalized_weights(weights, total))

\* the locals of compute_score at its return statement
compute_score_locals(gwp, circularity, cost, weights) ==
  ScoreWithTotal(normalize_bad(gwp, GWP_MAX),
                 normalize_good(circularity, CIRCULARITY_MAX),
                 normalize_bad(cost, COST_MAX),
                 weights,
                 score_total_weight_sum(weights))

ReturnOf(l) ==
  IF l.raised THEN Raised
  ELSE [raised |-> FALSE,
        final_score |-> l.final_score,
        subscore_dict |-> l.subscore_dict]

compute_score(gwp, circularity, cost, weights) ==
  ReturnOf(compute_score_locals(gwp, circularity, cost, weights))

\* variant: strict comparisons, the lower edge falls into the bucket below
map_rating_Strict(score) ==
  IF RLt(Rat(90, 1), score) THEN "A+"
  ELSE IF RLt(Rat(80, 1), score) THEN "A"
  ELSE IF RLt(Rat(70, 1), score) THEN "B"
  ELSE IF RLt(Rat(60, 1), score) THEN "C"
  ELSE "D"

map_rating(score) ==
  IF RLeq(Rat(90, 1), score) THEN "A+"
  ELSE IF RLeq(Rat(80, 1), score) THEN "A"
  ELSE IF RLeq(Rat(70, 1), score) THEN "B"
  ELSE IF RLeq(Rat(60, 1), score) THEN "C"
  ELSE "D"

(***************************************************************************)
(* suggestions.py                                                          *)
(***************************************************************************)
UpperAlpha ==
  <<"A", "B", "C", "D", "E", "F", "G", "H", "I", "J", "K", "L", "M",
      "N", "O", "P", "Q", "R", "S", "T", "U", "V", "W", "X", "Y", "Z">>
LowerAlpha ==
  <<"a", "b", "c", "d", "e", "f", "g", "h", "i", "j", "k", "l", "m",
      "n", "o", "p", "q", "r", "s", "t", "u", "v", "w", "x", "y", "z">>

\* str.lower()
LowerChar(c) ==
  IF \E i \in 1..26 : UpperAlpha[i] = c
  THEN LowerAlpha[CHOOSE i \in 1..26 : UpperAlpha[i] = c]
  ELSE c

\* variant: no case folding, the comparison is case-sensitive
Lower_Identity(s) == s

Lower(s) == [i \in 1..Len(s) |-> LowerChar(s[i])]

\* sub in s
Contains(sub, s) ==
  \E i \in 1..(Len(s) - Len(sub) + 1) : SubSeq(s, i, i + Len(sub) - 1) = sub

\* str(value): a text is itself, anything else becomes its printed form
StrOf(x) ==
  CASE x.t = "str" -> x.s
    [] x.t = "null" -> <<"N", "o", "n", "e">>
    [] x.t = "list" -> <<"[", "]">>
    [] x.t = "num" -> <<"0">>

\* a payload field that holds a list of values: present as a list, present
\* as something else (x), or absent
ListValue(items) == [t |-> "list", items |-> items, x |-> Absent]
NotAList(x) == [t |-> "other", items |-> <<>>, x |-> x]
NoList == [t |-> "absent", items |-> <<>>, x |-> Absent]

\* product.get(key, default) for a scalar field
Get(product, key, default) ==
  IF product.fields[key].t = "absent" THEN default ELSE product.fields[key]

\* the values a "for material in product.get('materials', [])" visits:
\* the items of a list, the characters of a text, TypeError otherwise
MaterialItems(product) ==
  LET m == product.materials
  IN  CASE m.t = "absent" -> Ok(<<>>)
        [] m.t = "list" -> Ok(m.items)
        [] m.t = "other" /\ m.x.t = "str" ->
             Ok([i \in 1..Len(m.x.s) |-> Str(<<m.x.s[i]>>)])
        [] OTHER -> [ok |-> FALSE, v |-> <<>>]

\* any(word in material.lower() for material in ... if isinstance(material, str))
AnyMaterial(product, word) ==
  LET it == MaterialItems(product)
  IN  IF ~it.ok THEN [ok |-> FALSE, v |-> FALSE]
      ELSE Ok(\E i \in 1..Len(it.v) :
                it.v[i].t = "str" /\ Contains(word, Lower(it.v[i].s)))

\* float(product.get(key, 0)) > threshold
Above(product, key, threshold) ==
  LET f == Float(Get(product, key, Num(0, 1)))
  IN  IF ~f.ok THEN [ok |-> FALSE, v |-> FALSE]
      ELSE Ok(RLt(Rat(threshold, 1), f.v))

\* variant: a missing field is skipped instead of read as 0
Below_MissingSkipped(product, key, threshold) ==
  IF product.fields[key].t = "absent" THEN Ok(FALSE)
  ELSE IF ~Float(product.fields[key]).ok THEN [ok |-> FALSE, v |-> FALSE]
  ELSE Ok(RLt(Float(product.fields[key]).v, Rat(threshold, 1)))

\* float(product.get(key, 0)) < threshold
Below(product, key, threshold) ==
  LET f == Float(Get(product, key, Num(0, 1)))
  IN  IF ~f.ok THEN [ok |-> FALSE, v |-> FALSE]
      ELSE Ok(RLt(f.v, Rat(threshold, 1)))

\* str(product.get(key, "")).lower()
LowerField(product, key) == Lower(StrOf(Get(product, key, Str(<<>>))))

TxtAir == <<"a", "i", "r">>
TxtRoad == <<"r", "o", "a", "d">>
TxtTruck == <<"t", "r", "u", "c", "k">>
TxtPlastic == <<"p", "l", "a", "s", "t", "i", "c">>
TxtAluminum == <<"a", "l", "u", "m", "i", "n", "u", "m">>
TxtSteel == <<"s", "t", "e", "e", "l">>
TxtRecyclable == <<"r", "e", "c", "y", "c", "l", "a", "b", "l", "e">>
TxtBiodegradable == <<"b", "i", "o", "d", "e", "g", "r", "a", "d", "a", "b", "l", "e">>
TxtCompostable == <<"c", "o", "m", "p", "o", "s", "t", "a", "b", "l", "e">>

\* the lambdas of RULES, by name; a payload that is not a mapping has
\* no .get and every lambda raises AttributeError
Predicate(id, product) ==
  IF ~product.ismap THEN [ok |-> FALSE, v |-> FALSE]
  ELSE CASE id = "transport_air" ->
              Ok(LowerField(product, "transport") = TxtAir)
         [] id = "transport_road" ->
              Ok(LowerField(product, "transport") \in {TxtRoad, TxtTruck})
         [] id = "material_plastic" -> AnyMaterial(product, TxtPlastic)
         [] id = "material_aluminum" -> AnyMaterial(product, TxtAluminum)
         [] id = "material_steel" -> AnyMaterial(product, TxtSteel)
         [] id = "packaging_switch" ->
              Ok(LowerField(product, "packaging")
                   \notin {TxtRecyclable, TxtBiodegradable, TxtCompostable})
         [] id = "packaging_recyclable" ->
              Ok(LowerField(product, "packaging") = TxtRecyclable)
         [] id = "weight_high" -> Above(product, "weight_grams", 500)
         [] id = "circularity_low" -> Below(product, "circularity", 60)
         [] id = "gwp_high" -> Above(product, "gwp", 20)
         [] id = "cost_high" -> Above(product, "cost", 50)

MsgAir == "Avoid air transport where possible; prefer sea or rail to cut emissions."
MsgRoad == "Optimize logistics and consolidate shipments to reduce road-miles."
MsgPlastic == "Reduce or replace plastic with recycled content or bio-based alternatives."
MsgAluminum == "Use high-recycled-content aluminum and closed-loop scrap recovery."
MsgSteel == "Prefer low-carbon (EAF) steel or suppliers with verified green steel."
MsgPackagingSwitch == "Switch to recyclable/compostable packaging and minimize material usage."
MsgRecycling == "Add clear recycling instructions and minimize inks/laminates."
MsgLightweight == "Lightweight the product via design-for-minimal-mass and material swaps."
MsgCircularity == "Increase circularity: design for disassembly, repairability, and parts reuse."
MsgGwp == "Target high-impact stages (materials & transport) to lower GWP substantially."
MsgCost == "Lower cost via material optimization, supplier consolidation, or design simplification."
MsgFallback == "Product already performs well; focus on supplier transparency and continuous improvement."

Rule(id, text) == [predicate_fn |-> id, suggestion_text |-> text]

RulesInit ==
  << Rule("transport_air", MsgAir),
     Rule("transport_road", MsgRoad),
     Rule("material_plastic", MsgPlastic),
     Rule("material_aluminum", MsgAluminum),
     Rule("material_steel", MsgSteel),
     Rule("packaging_switch", MsgPackagingSwitch),
     Rule("packaging_recyclable", MsgRecycling),
     Rule("weight_high", MsgLightweight),
     Rule("circularity_low", MsgCircularity),
     Rule("gwp_high", MsgGwp),
     Rule("cost_high", MsgCost) >>

InSeq(x, q) == \E i \in 1..Len(q) : q[i] = x

\* variant: one try around the whole loop, a raising rule ends it
RECURSIVE RuleLoop_AbortOnRaise(_, _, _, _)
RuleLoop_AbortOnRaise(rules, product, i, suggestion_list) ==
  IF i > Len(rules) THEN suggestion_list
  ELSE LET p == Predicate(rules[i].predicate_fn, product)
           text == rules[i].suggestion_text
       IN  IF ~p.ok THEN suggestion_list
           ELSE RuleLoop_AbortOnRaise(rules, product, i + 1,
                  IF p.v /\ ~InSeq(text, suggestion_list)
                  THEN Append(suggestion_list, text)
                  ELSE suggestion_list)

\* variant: a new message is put in front of the list
RECURSIVE RuleLoop_Prepend(_, _, _, _)
RuleLoop_Prepend(rules, product, i, suggestion_list) ==
  IF i > Len(rules) THEN suggestion_list
  ELSE LET p == Predicate(rules[i].predicate_fn, product)
           text == rules[i].suggestion_text
       IN  RuleLoop_Prepend(rules, product, i + 1,
             IF p.ok /\ p.v /\ ~InSeq(text, suggestion_list)
             THEN <<text>> \o suggestion_list
             ELSE suggestion_list)

\* the for loop over RULES, from rule i on, with the list built so far;
\* used_suggestion_texts always holds exactly the texts of the list
RECURSIVE RuleLoop(_, _, _, _)
RuleLoop(rules, product, i, suggestion_list) ==
  IF i > Len(rules) THEN suggestion_list
  ELSE LET p == Predicate(rules[i].predicate_fn, product)
           text == rules[i].suggestion_text
           add == p.ok /\ p.v /\ ~InSeq(text, suggestion_list)
       IN  RuleLoop(rules, product, i + 1,
                    IF add THEN Append(suggestion_list, text)
                    ELSE suggestion_list)

\* variant: the baseline suggestion is not added
rule_based_suggestions_NoFallback(rules, request_payload) ==
  RuleLoop(rules, request_payload, 1, <<>>)

rule_based_suggestions(rules, request_payload) ==
  LET suggestion_list == RuleLoop(rules, request_payload, 1, <<>>)
  IN  IF suggestion_list = <<>> THEN <<MsgFallback>> ELSE suggestion_list

(***************************************************************************)
(* Inputs of parse_weights.                                                *)
(***************************************************************************)
WeightNums == {Num(k, 10) : k \in -MaxWeightNum..MaxWeightNum}

PayloadTexts == {Str(<<"0", ".", "5">>), Str(<<"h", "i">>)}

QueryTexts == {Str(<<"1">>), Str(<<" ", "-", "1">>), Str(<<"1", ".", ".">>)}

PayloadValues == WeightNums \cup PayloadTexts \cup {Null, Absent}

QueryValues == QueryTexts \cup {Absent}

NoMapping == [k \in KeySet |-> Absent]

\* request.json["weights"]: a dict, or None / a list / a text / a number
PayloadWeights ==
  {[isdict |-> TRUE, m |-> m] : m \in [KeySet -> PayloadValues]}
    \cup {[isdict |-> FALSE, m |-> NoMapping]}

QueryArgs == [KeySet -> QueryValues]

\* a request without a "weights" entry: payload.weights is None
NoWeights == [isdict |-> FALSE, m |-> NoMapping]

(***************************************************************************)
(* Inputs of the scoring calculator.                                       *)
(***************************************************************************)
\* weights a caller hands to compute_score: any triple of tenths, the
\* weights of the test, and what parse_weights returns for payload weights
CallerWeights ==
  [KeySet -> {Rat(k, 10) : k \in -MaxWeightNum..MaxWeightNum}]
    \cup {DefaultWeightsInit}

ResolvedWeights ==
  {parse_weights(DefaultWeightsInit, pw, [k \in KeySet |-> Absent]).w :
     pw \in PayloadWeights}

ScoreWeights == CallerWeights \cup ResolvedWeights

GwpInputs == {Rat(k, 1) : k \in {-5, 0, 5, 30, 75}}
CircularityInputs == {Rat(k, 1) : k \in {-5, 0, 40, 80, 120}}
CostInputs == {Rat(k, 1) : k \in {-5, 0, 10, 60, 150}}

\* raw values in halves around [0, ceiling]; ceilings from -1 up
Ceilings == {Rat(k, 1) : k \in -1..MaxCeiling}
RawValues == {Rat(k, 2) : k \in -2..(2 * MaxCeiling + 2)}

\* scores in hundredths around each bucket edge, and the far ends
ScoreInputs ==
  {Rat(100 * b + k, 100) : b \in {60, 70, 80, 90}, k \in -ScoreSpread..ScoreSpread}
    \cup {Rat(k, 1) : k \in {-20, 0, 10, 61, 72, 85, 95, 100, 200}}

(***************************************************************************)
(* Inputs of rule_based_suggestions.                                       *)
(***************************************************************************)
TransportInputs ==
  {Absent, Null, Str(<<"a", "i", "r">>), Str(<<"A", "i", "R">>),
   Str(<<"T", "r", "u", "c", "k">>), Str(<<"s", "e", "a">>)}

MaterialsInputs ==
  {NoList, NotAList(Null), NotAList(Str(<<"p", "l", "a", "s", "t", "i", "c">>)),
   ListValue(<<>>),
   ListValue(<<Str(<<"p", "l", "a", "s", "t", "i", "c">>)>>),
   ListValue(<<Str(<<"P", "L", "A", "S", "T", "I", "C">>)>>),
   ListValue(<<Str(<<"E", "c", "o", " ", "P", "L", "A", "S", "T", "I", "C">>),
               Str(<<"s", "t", "e", "e", "l">>)>>),
   ListValue(<<Num(7, 1), Str(<<"A", "l", "u", "m", "i", "n", "u", "m">>)>>)}

PackagingInputs ==
  {Absent,
   Str(<<"p", "l", "a", "s", "t", "i", "c", " ", "w", "r", "a", "p">>),
   Str(<<"P", "l", "a", "s", "t", "i", "c", " ", "W", "R", "A", "P">>),
   Str(<<"r", "e", "c", "y", "c", "l", "a", "b", "l", "e">>),
   Str(<<"C", "o", "m", "p", "o", "s", "t", "a", "b", "l", "e">>),
   Str(<<"B", "I", "O", "D", "E", "G", "R", "A", "D", "A", "B", "L", "E">>)}

WeightInputs == {Absent, Num(600, 1), Num(500, 1), Str(<<"h", "e", "a", "v", "y">>)}
CircularityFieldInputs ==
  {Absent, Num(40, 1), Num(60, 1), Str(<<"6", "0", ".", "5">>),
   Str(<<"h", "i", "g", "h">>)}
GwpFieldInputs == {Absent, Num(30, 1), Str(<<"2", "0">>), Null}
CostFieldInputs == {Absent, Num(60, 1), Num(50, 1), List}

Product(tr, ma, pa, we, ci, gw, co) ==
  [ismap |-> TRUE,
   materials |-> ma,
   fields |-> [transport |-> tr, packaging |-> pa, weight_grams |-> we,
               circularity |-> ci, gwp |-> gw, cost |-> co]]

\* a JSON body that is not an object
NotAMapping ==
  [Product(Absent, NoList, Absent, Absent, Absent, Absent, Absent)
     EXCEPT !.ismap = FALSE]

Products ==
  {Product(tr, ma, pa, we, ci, gw, co) :
     tr \in TransportInputs, ma \in MaterialsInputs, pa \in PackagingInputs,
     we \in WeightInputs, ci \in CircularityFieldInputs,
     gw \in GwpFieldInputs, co \in CostFieldInputs}
    \cup {NotAMapping}

(***************************************************************************)
(* models.py                                                               *)
(***************************************************************************)
\* the JSON object of a request: the product fields the rules read, with
\* product_name and weights
RawDict(name, weights, product) ==
  [ismap |-> TRUE, product_name |-> name, weights |-> weights,
   materials |-> product.materials, fields |-> product.fields]

\* to_float_maybe: float(value), or the default 0.0 when float raises
to_float_maybe(value) == IF Float(value).ok THEN Float(value).v ELSE Zero

\* [str(material) for material in ... if isinstance(material, (str, int, float))]
MaterialNames(items) ==
  LET kept == SelectSeq(items, LAMBDA m : m.t \in {"str", "num"})
  IN  [i \in 1..Len(kept) |-> StrOf(kept[i])]

\* str(raw_dict.get("product_name", "")).strip()
ProductName(value) ==
  Strip(StrOf(IF value.t = "absent" THEN Str(<<>>) ELSE value))

\* ScorePayload.from_dict; iterating a materials value that is not iterable
\* raises TypeError
from_dict(raw_dict) ==
  IF ~MaterialItems(raw_dict).ok THEN Raised
  ELSE [raised |-> FALSE,
        product_name |-> ProductName(raw_dict.product_name),
        materials |-> MaterialNames(MaterialItems(raw_dict).v),
        weight_grams |-> to_float_maybe(Get(raw_dict, "weight_grams", Num(0, 1))),
        transport |-> StrOf(Get(raw_dict, "transport", Str(<<>>))),
        packaging |-> StrOf(Get(raw_dict, "packaging", Str(<<>>))),
        gwp |-> to_float_maybe(Get(raw_dict, "gwp", Num(0, 1))),
        cost |-> to_float_maybe(Get(raw_dict, "cost", Num(0, 1))),
        circularity |-> to_float_maybe(Get(raw_dict, "circularity", Num(0, 1))),
        weights |-> raw_dict.weights]

ErrProductName == "product_name is required."
ErrCircularityMax == "circularity must be <= 100."
ErrTransport == "transport is required."
ErrPackaging == "packaging is required."

\* f"{numeric_field_name} must be >= 0."
MustBeNonNegative(numeric_field_name) ==
  CASE numeric_field_name = "gwp" -> "gwp must be >= 0."
    [] numeric_field_name = "cost" -> "cost must be >= 0."
    [] numeric_field_name = "circularity" -> "circularity must be >= 0."
    [] numeric_field_name = "weight_grams" -> "weight_grams must be >= 0."

NumericFieldNames == <<"gwp", "cost", "circularity", "weight_grams">>

\* the loop over the numeric fields of validate
NumericErrors(payload) ==
  LET bad == SelectSeq(NumericFieldNames, LAMBDA f : RLt(payload[f], Zero))
  IN  [i \in 1..Len(bad) |-> MustBeNonNegative(bad[i])]

\* ScorePayload.validate
validate(payload) ==
  (IF payload.product_name = <<>> THEN <<ErrProductName>> ELSE <<>>)
    \o NumericErrors(payload)

(***************************************************************************)
(* Inputs of ScorePayload.                                                 *)
(***************************************************************************)
ValidateProducts ==
  {Product(tr, ma, pa, we, ci, gw, co) :
     tr \in {Absent, Str(<<>>), Str(TxtAir)},
     ma \in {NoList, NotAList(Null),
             ListValue(<<Str(TxtAluminum), Str(TxtPlastic)>>),
             ListValue(<<Num(7, 1), Null>>)},
     pa \in {Str(<<>>), Str(TxtRecyclable)},
     we \in {Num(-10, 1), Num(300, 1)},
     ci \in {Num(200, 1), Num(80, 1), Num(-1, 1)},
     gw \in {Absent, Num(-5, 1), Num(5, 1), Str(<<"-", "1">>),
             Str(<<"n", "/", "a">>)},
     co \in {Num(-1, 1), Num(10, 1)}}

ValidateInputs ==
  {RawDict(name, NoWeights, product) :
     name \in {Absent, Null, Str(<<>>), Str(<<" ">>),
               Str(<<"B", "o", "t", "t", "l", "e">>)},
     product \in ValidateProducts}

NoValue == [none |-> TRUE]

(***************************************************************************)
(* suggestions.py, llm_supplement.  What the provider answers is outside   *)
(* the program: not configured, a failed call, or a text of lines.         *)
(***************************************************************************)
\* a line of the answer: the run of "-", bullet (U+2022, written "bullet")
\* and " " at its start, which str.strip removes, and the rest of the line
\* without such a run at its end
Line(lead, body) == [lead |-> lead, body |-> body]

\* not raw_line.strip(): the line holds nothing but blanks
IsBlank(line) ==
  line.body = "" /\ \A i \in 1..Len(line.lead) : line.lead[i] = " "

\* raw_line.strip("-\u2022 ").strip()
normalized_line(line) == line.body

RECURSIVE CleanLoop(_, _, _)
\* the end of one pass of the loop: break at three suggestions
CleanNext(lines, i, cleaned_suggestions) ==
  IF Len(cleaned_suggestions) >= 3 THEN cleaned_suggestions
  ELSE CleanLoop(lines, i + 1, cleaned_suggestions)

\* the for loop over model_raw_text.splitlines(), from line i on
CleanLoop(lines, i, cleaned_suggestions) ==
  IF i > Len(lines) THEN cleaned_suggestions
  ELSE IF IsBlank(lines[i]) THEN CleanLoop(lines, i + 1, cleaned_suggestions)
  ELSE CleanNext(lines, i,
         IF /\ normalized_line(lines[i]) # ""
            /\ ~InSeq(normalized_line(lines[i]), cleaned_suggestions)
         THEN Append(cleaned_suggestions, normalized_line(lines[i]))
         ELSE cleaned_suggestions)

\* llm_supplement: [] unless configured, [] when anything fails
llm_supplement(llm) ==
  IF ~llm.configured \/ llm.failed THEN <<>> ELSE CleanLoop(llm.lines, 1, <<>>)

(***************************************************************************)
(* app.py, POST /score                                                     *)
(***************************************************************************)
\* the loop that merges the two lists, from entry i on
RECURSIVE MergeLoop(_, _, _)
MergeLoop(all, i, merged_suggestion_list) ==
  IF i > Len(all) THEN merged_suggestion_list
  ELSE MergeLoop(all, i + 1,
         IF all[i] # "" /\ ~InSeq(all[i], merged_suggestion_list)
         THEN Append(merged_suggestion_list, all[i])
         ELSE merged_suggestion_list)

\* variant: the external suggestions are taken first
merged_suggestion_list_AiFirst(rule_suggestion_list, ai_suggestion_list) ==
  MergeLoop(ai_suggestion_list \o rule_suggestion_list, 1, <<>>)

\* for suggestion_text in (rule_suggestion_list + ai_suggestion_list)
merged_suggestion_list(rule_suggestion_list, ai_suggestion_list) ==
  MergeLoop(rule_suggestion_list \o ai_suggestion_list, 1, <<>>)

\* an exception no handler catches: Flask answers 500
ServerError ==
  [status |-> 500, body |-> [error |-> "internal_server_error"], row |-> NoValue]

\* the 400 answer of a payload with validation errors
ValidationError(validation_errors) ==
  [status |-> 400,
   body |-> [error |-> "validation_error", details |-> validation_errors],
   row |-> NoValue]

\* the ProductScore record and the 200 answer
ScoreStored(payload, weights, cs, rating_letter, rule_list, ai_list, merged) ==
  [status |-> 200,
   body |-> [product_name |-> payload.product_name,
             sustainability_score |-> cs.final_score,
             rating |-> rating_letter,
             subscores |-> cs.subscore_dict,
             weights |-> weights,
             suggestions |-> merged,
             ai_suggestions |-> ai_list,
             rule_suggestions |-> rule_list],
   row |-> [product_name |-> payload.product_name,
            materials |-> payload.materials,
            weight_grams |-> payload.weight_grams,
            transport |-> payload.transport,
            packaging |-> payload.packaging,
            gwp |-> payload.gwp,
            cost |-> payload.cost,
            circularity |-> payload.circularity,
            sustainability_score |-> cs.final_score,
            rating |-> rating_letter,
            suggestions |-> merged]]

ScoreSuggested(payload, weights, cs, rule_list, ai_list) ==
  ScoreStored(payload, weights, cs, map_rating(cs.final_score),
              rule_list, ai_list, merged_suggestion_list(rule_list, ai_list))

ScoreComputed(request_data, llm, rules, payload, weights, cs) ==
  IF cs.raised THEN ServerError
  ELSE ScoreSuggested(payload, weights, cs,
                      rule_based_suggestions(rules, request_data),
                      llm_supplement(llm))

ScoreWeighted(request_data, llm, rules, payload, nw) ==
  IF nw.raised THEN ServerError
  ELSE ScoreComputed(request_data, llm, rules, payload, nw.w,
         compute_score(payload.gwp, payload.circularity, payload.cost, nw.w))

ScoreValidated(request_data, query_args, llm, defaults, rules, payload) ==
  IF payload.raised THEN ServerError
  ELSE IF validate(payload) # <<>> THEN ValidationError(validate(payload))
  ELSE ScoreWeighted(request_data, llm, rules, payload,
                     parse_weights(defaults, payload.weights, query_args))

\* the /score handler: status, body and the row it stores
post_score(request_data, query_args, llm, defaults, rules) ==
  ScoreValidated(request_data, query_args, llm, defaults, rules,
                 from_dict(request_data))

\* variant: the row replaces the table
Commit_Replace(rows, db_record) == <<db_record>>

\* db_session.add(db_record); db_session.commit()
Commit(rows, db_record) == Append(rows, db_record)

(***************************************************************************)
(* Requests of the service.                                                *)
(***************************************************************************)
MaxRows == 2

TipRail == "Switch to rail instead of air for long-haul freight."
TipRepair == "Add repair instructions to promote reuse."
TipAluminum == "Increase recycled aluminum share in housing."

LlmAnswers ==
  {[configured |-> FALSE, failed |-> FALSE, lines |-> <<>>],
   [configured |-> TRUE, failed |-> TRUE, lines |-> <<>>],
   [configured |-> TRUE, failed |-> FALSE,
    lines |-> <<Line(<<"-", " ">>, MsgAir), Line(<<>>, TipRail)>>],
   [configured |-> TRUE, failed |-> FALSE,
    lines |-> <<Line(<<"-", " ">>, TipRail), Line(<<" ", " ">>, ""), Line(<<"-">>, ""),
                Line(<<"bullet", " ">>, TipRail), Line(<<"-", " ">>, MsgFallback),
                Line(<<"-", " ">>, TipRepair), Line(<<"-", " ">>, TipAluminum)>>]}

ServiceProducts ==
  {Product(Str(TxtAir), ListValue(<<Str(TxtPlastic)>>), Str(<<"p", "l", "a", "s", "t", "i", "c", " ", "w", "r", "a", "p">>),
           Num(600, 1), Num(40, 1), Num(30, 1), Num(60, 1)),
   Product(Str(<<"s", "e", "a">>), ListValue(<<>>), Str(<<"C", "o", "m", "p", "o", "s", "t", "a", "b", "l", "e">>),
           Absent, Num(80, 1), Str(<<"5">>), Num(10, 1)),
   Product(Absent, NoList, Absent, Absent, Absent, Num(-5, 1), Absent),
   Product(Absent, NotAList(Null), Absent, Absent, Absent, Absent, Absent)}

\* product_name empty or given; weights absent or all on cost
ServiceRequests ==
  {RawDict(name, weights, product) :
     name \in {Str(<<>>), Str(<<"C", "u", "p">>)},
     weights \in {NoWeights,
                  [isdict |-> TRUE,
                   m |-> [k \in KeySet |->
                            IF k = "cost" THEN Num(1, 1) ELSE Num(0, 1)]]},
     product \in ServiceProducts}

\* request.args: no override, or w_gwp=1
ServiceQueries == {NoMapping, [NoMapping EXCEPT !["gwp"] = Str(<<"1">>)]}

(***************************************************************************)
(* The state machine: one call at a time, each call a whole function.      *)
(***************************************************************************)
Init ==
  /\ pc = "idle"
  /\ args = NoValue
  /\ locals = NoValue
  /\ ret = NoValue
  /\ DEFAULT_WEIGHTS = DefaultWeightsInit
  /\ RULES = RulesInit
  /\ db = <<>>

\* variant: chosen_weights is the module's mapping itself, not a copy
DefaultsAfter_Aliased(defaults, chosen) == chosen

\* chosen_weights = dict(DEFAULT_WEIGHTS): the assignments of the loop go to
\* a copy, the module's mapping keeps its entries
DefaultsAfter(defaults, chosen) == defaults

ParseWeights ==
  /\ pc = "idle"
  /\ \E pw \in PayloadWeights, qa \in QueryArgs :
       /\ args' = [payload_weights |-> pw, query_args |-> qa]
       /\ locals' = parse_weights_locals(DEFAULT_WEIGHTS, pw, qa)
       /\ ret' = parse_weights(DEFAULT_WEIGHTS, pw, qa)
       /\ DEFAULT_WEIGHTS' =
            DefaultsAfter(DEFAULT_WEIGHTS, chosen_weights(DEFAULT_WEIGHTS, pw, qa))
  /\ pc' = "parse_weights"
  /\ UNCHANGED <<RULES, db>>

NormalizeBad ==
  /\ pc = "idle"
  /\ \E raw \in RawValues, max \in Ceilings :
       /\ args' = [raw_value |-> raw, max_value |-> max]
       /\ ret' = normalize_bad(raw, max)
  /\ locals' = NoValue
  /\ pc' = "normalize_bad"
  /\ UNCHANGED <<config, db>>

NormalizeGood ==
  /\ pc = "idle"
  /\ \E raw \in RawValues, max \in Ceilings :
       /\ args' = [raw_value |-> raw, max_value |-> max]
       /\ ret' = normalize_good(raw, max)
  /\ locals' = NoValue
  /\ pc' = "normalize_good"
  /\ UNCHANGED <<config, db>>

ComputeScore ==
  /\ pc = "idle"
  /\ \E g \in GwpInputs, c \in CircularityInputs, k \in CostInputs,
        w \in ScoreWeights :
       /\ args' = [gwp |-> g, circularity |-> c, cost |-> k, weights |-> w]
       /\ locals' = compute_score_locals(g, c, k, w)
       /\ ret' = compute_score(g, c, k, w)
  /\ pc' = "compute_score"
  /\ UNCHANGED <<config, db>>

MapRating ==
  /\ pc = "idle"
  /\ \E score \in ScoreInputs :
       /\ args' = [score |-> score]
       /\ ret' = map_rating(score)
  /\ locals' = NoValue
  /\ pc' = "map_rating"
  /\ UNCHANGED <<config, db>>

RuleBasedSuggestions ==
  /\ pc = "idle"
  /\ \E product \in Products :
       /\ args' = [request_payload |-> product]
       /\ ret' = rule_based_suggestions(RULES, product)
  /\ locals' = NoValue
  /\ pc' = "rule_based_suggestions"
  /\ UNCHANGED <<config, db>>

Validate ==
  /\ pc = "idle"
  /\ \E raw_dict \in ValidateInputs :
       /\ args' = [raw_dict |-> raw_dict]
       /\ locals' = from_dict(raw_dict)
       /\ ret' = IF from_dict(raw_dict).raised THEN Raised
                 ELSE validate(from_dict(raw_dict))
  /\ pc' = "validate"
  /\ UNCHANGED <<config, db>>

\* the caller takes the result; the frame is gone
Return ==
  /\ pc # "idle"
  /\ pc' = "idle"
  /\ args' = NoValue
  /\ locals' = NoValue
  /\ ret' = NoValue
  /\ UNCHANGED <<config, db>>

Next ==
  \/ ParseWeights
  \/ NormalizeBad
  \/ NormalizeGood
  \/ ComputeScore
  \/ MapRating
  \/ RuleBasedSuggestions
  \/ Validate
  \/ Return

Spec == Init /\ [][Next]_vars

(***************************************************************************)
(* The service: a sequence of POST /score requests on one table.           *)
(***************************************************************************)
Score ==
  /\ pc = "idle"
  /\ Len(db) < MaxRows
  /\ \E request_data \in ServiceRequests, qa \in ServiceQueries,
        llm \in LlmAnswers :
       /\ args' = [request_data |-> request_data, query_args |-> qa,
                   llm |-> llm]
       /\ locals' = from_dict(request_data)
       /\ ret' = [status |-> post_score(request_data, qa, llm,
                                   DEFAULT_WEIGHTS, RULES).status,
                  body |-> post_score(request_data, qa, llm,
                                 DEFAULT_WEIGHTS, RULES).body]
       /\ db' = IF post_score(request_data, qa, llm,
                         DEFAULT_WEIGHTS, RULES).status = 200
                THEN Commit(db, post_score(request_data, qa, llm,
                                      DEFAULT_WEIGHTS, RULES).row)
                ELSE db
  /\ pc' = "score"
  /\ UNCHANGED config

\* the response is sent; the rows stay
Respond ==
  /\ pc = "score"
  /\ pc' = "idle"
  /\ args' = NoValue
  /\ locals' = NoValue
  /\ ret' = NoValue
  /\ UNCHANGED <<config, db>>

NextService ==
  \/ Score
  \/ Respond

SpecService == Init /\ [][NextService]_vars

(***************************************************************************)
(* Properties of parse_weights.                                            *)
(***************************************************************************)
InRange(x) == RLeq(Zero, x) /\ RLeq(x, Hundred)

\* C1: parse_weights returns exactly the keys gwp, circularity and cost,
\* each value non-negative, the three values summing to 1.0, whatever the
\* payload weights and the query overrides are.
C1_ResolvedNonNegativeSumOne ==
  pc = "parse_weights" =>
    /\ ~ret.raised
    /\ DOMAIN ret.w = KeySet
    /\ \A k \in KeySet : RLeq(Zero, ret.w[k])
    /\ SumValues(ret.w) = One

\* the sum of the weights a call divides: the merged weights in
\* parse_weights, the supplied weights in compute_score
MergedSum ==
  IF pc = "parse_weights" THEN SumValues(locals.chosen_weights)
  ELSE SumValues(args.weights)

MergedWeights ==
  IF pc = "parse_weights" THEN locals.chosen_weights ELSE args.weights

DividedWeights ==
  IF pc = "parse_weights" THEN ret.w ELSE locals.normalized_weights

\* C2 (as stated): when the sum of the merged weights is <= 0, parse_weights
\* and compute_score divide by 1.0 instead of by the sum.
C2_NonPositiveSumDividesByOne ==
  (pc \in {"parse_weights", "compute_score"} /\ RLeq(MergedSum, Zero)) =>
    /\ locals.total_weight_sum = One
    /\ DividedWeights = MergedWeights

\* C2 (amended): parse_weights and compute_score divide by 1.0 exactly when
\* the sum of the merged weights equals 0; any other sum, a negative one
\* included, is itself the divisor.
C2_ZeroSumDividesByOne ==
  pc \in {"parse_weights", "compute_score"} =>
    /\ RIsZero(MergedSum) =>
         /\ locals.total_weight_sum = One
         /\ DividedWeights = MergedWeights
    /\ ~RIsZero(MergedSum) =>
         /\ locals.total_weight_sum = MergedSum
         /\ \A k \in KeySet :
              RMul(DividedWeights[k], MergedSum) = MergedWeights[k]

C2_Witness ==
  /\ pc = "parse_weights"
  /\ RIsZero(MergedSum)
  /\ \E k \in KeySet : ~RIsZero(locals.chosen_weights[k])
  /\ locals.total_weight_sum = One
  /\ ret.w = locals.chosen_weights

\* whether float() accepts the value supplied under a name
Parseable(x) == x.t # "absent" /\ Float(x).ok

PayloadEntry(k) ==
  IF args.payload_weights.isdict THEN args.payload_weights.m[k] ELSE Absent

BadPayloadValues == {Null, List, Str(<<"h", "i">>), Absent}
BadQueryValues == {Str(<<"1", ".", ".">>), Str(<<>>), Absent}

\* C4: parse_weights never raises; an absent or unparseable payload weight
\* or query override leaves the value already chosen for its name as it
\* was, and does not touch the other two names.
C4_BadValuesIgnored ==
  pc = "parse_weights" =>
    /\ ~ret.raised
    /\ \A k \in KeySet :
         /\ (~Parseable(args.query_args[k]) /\ ~Parseable(PayloadEntry(k)))
              => locals.chosen_weights[k] = DEFAULT_WEIGHTS[k]
         /\ (~Parseable(args.query_args[k]) /\ Parseable(PayloadEntry(k)))
              => locals.chosen_weights[k] = Float(PayloadEntry(k)).v
    /\ \A j \in KeySet : \A k \in KeySet \ {j} :
         /\ \A b \in BadQueryValues :
              chosen_weights(DEFAULT_WEIGHTS, args.payload_weights,
                             [args.query_args EXCEPT ![j] = b])[k]
                = locals.chosen_weights[k]
         /\ \A b \in BadPayloadValues :
              chosen_weights(DEFAULT_WEIGHTS,
                             [args.payload_weights EXCEPT !.m[j] = b],
                             args.query_args)[k]
                = locals.chosen_weights[k]

C4_Witness ==
  /\ pc = "parse_weights"
  /\ ~ret.raised
  /\ PayloadEntry("gwp") = Str(<<"h", "i">>)
  /\ args.query_args["gwp"] = Str(<<"1", ".", ".">>)
  /\ locals.chosen_weights["gwp"] = DEFAULT_WEIGHTS["gwp"]
  /\ PayloadEntry("circularity") = Null
  /\ Parseable(args.query_args["cost"])
  /\ locals.chosen_weights["cost"] # DEFAULT_WEIGHTS["cost"]

(***************************************************************************)
(* Properties of the scoring calculator.                                   *)
(***************************************************************************)
\* C5: the composite score compute_score returns is in [0, 100] for every
\* metric triple and every weight mapping over the three names, the
\* mappings parse_weights produces included.
C5_CompositeInRange ==
  pc = "compute_score" => (~ret.raised /\ InRange(ret.final_score))

\* C6: normalize_bad and normalize_good return a value in [0, 100] for
\* every raw value and ceiling, and exactly 100, with no division, when the
\* ceiling is <= 0.
C6_NormalizedInRange ==
  pc \in {"normalize_bad", "normalize_good"} =>
    /\ ret.ok
    /\ InRange(ret.v)
    /\ RLeq(args.max_value, Zero) => ret.v = Hundred

C6_Witness ==
  /\ pc = "normalize_bad"
  /\ RLt(Zero, args.max_value)
  /\ RLt(args.max_value, args.raw_value)
  /\ ret = Ok(Zero)

\* C7: for a positive ceiling, a larger raw value never raises the result
\* of normalize_bad and never lowers the result of normalize_good, and the
\* results stay at 0 or 100 for raw values outside [0, ceiling].
C7_NormalizeMonotonic ==
  /\ (pc = "normalize_bad" /\ RLt(Zero, args.max_value)) =>
       /\ \A r \in RawValues :
            RLeq(args.raw_value, r) =>
              RLeq(normalize_bad(r, args.max_value).v, ret.v)
       /\ RLeq(args.raw_value, Zero) => ret.v = Hundred
       /\ RLeq(args.max_value, args.raw_value) => ret.v = Zero
  /\ (pc = "normalize_good" /\ RLt(Zero, args.max_value)) =>
       /\ \A r \in RawValues :
            RLeq(args.raw_value, r) =>
              RLeq(ret.v, normalize_good(r, args.max_value).v)
       /\ RLeq(args.raw_value, Zero) => ret.v = Zero
       /\ RLeq(args.max_value, args.raw_value) => ret.v = Hundred

C7_Witness ==
  /\ pc = "normalize_bad"
  /\ RLt(Zero, args.raw_value)
  /\ RLt(args.raw_value, args.max_value)
  /\ RLt(Zero, ret.v)
  /\ RLt(ret.v, Hundred)
  /\ \E r \in RawValues :
       /\ RLt(args.raw_value, r)
       /\ RLt(normalize_bad(r, args.max_value).v, ret.v)

\* the divisor of the weights: their sum, or 1.0 when the sum is zero
WeightDivisor ==
  IF RIsZero(SumValues(args.weights)) THEN One ELSE SumValues(args.weights)

\* sum over the three names of sub-score x weight / divisor
WeightedSum ==
  LET term(k) ==
        RMul(ret.subscore_dict[k], RDiv(args.weights[k], WeightDivisor).v)
  IN  RAdd(RAdd(term("gwp"), term("circularity")), term("cost"))

RAbs(x) == IF x.n < 0 THEN RSub(Zero, x) ELSE x

TestWeights ==
  [gwp |-> Rat(5, 10), circularity |-> Rat(3, 10), cost |-> Rat(2, 10)]

IsTestScenario ==
  /\ pc = "compute_score"
  /\ args.gwp = Rat(5, 1)
  /\ args.circularity = Rat(80, 1)
  /\ args.cost = Rat(10, 1)
  /\ args.weights = TestWeights

\* C8: compute_score returns the weighted sum of the sub-scores rounded to
\* two decimals, with the three sub-scores as normalization produced them;
\* for gwp=5, circularity=80, cost=10 and weights 0.5/0.3/0.2 the
\* sub-scores are 90, 80, 90, the composite 87.0 and the rating A.
C8_CompositeIsRoundedWeightedSum ==
  pc = "compute_score" =>
    /\ ~ret.raised
    /\ ret.subscore_dict.gwp = normalize_bad(args.gwp, GWP_MAX).v
    /\ ret.subscore_dict.circularity =
         normalize_good(args.circularity, CIRCULARITY_MAX).v
    /\ ret.subscore_dict.cost = normalize_bad(args.cost, COST_MAX).v
    /\ 100 % ret.final_score.d = 0
    /\ RLeq(RAbs(RSub(ret.final_score, WeightedSum)), Rat(1, 200))
    /\ IsTestScenario =>
         /\ ret.subscore_dict =
              [gwp |-> Rat(90, 1), circularity |-> Rat(80, 1),
               cost |-> Rat(90, 1)]
         /\ ret.final_score = Rat(87, 1)
         /\ map_rating(ret.final_score) = "A"

C8_Witness ==
  /\ IsTestScenario
  /\ ret.final_score = Rat(87, 1)

Rank(rating) ==
  CASE rating = "D" -> 0 [] rating = "C" -> 1 [] rating = "B" -> 2
    [] rating = "A" -> 3 [] rating = "A+" -> 4

Between(lo, x, hi) == RLeq(Rat(lo, 1), x) /\ RLt(x, Rat(hi, 1))

\* C9: map_rating is total with lower-inclusive buckets: >= 90 is A+,
\* [80, 90) is A, [70, 80) is B, [60, 70) is C, below 60 is D; 89.99 is A,
\* 90.00 is A+, 79.99 is B, 80.00 is A, 69.99 is C, 70.00 is B, 59.99 is D,
\* 60.00 is C; a higher score never gets a lower rating.
C9_RatingBuckets ==
  pc = "map_rating" =>
    /\ ret \in {"A+", "A", "B", "C", "D"}
    /\ RLeq(Rat(90, 1), args.score) => ret = "A+"
    /\ Between(80, args.score, 90) => ret = "A"
    /\ Between(70, args.score, 80) => ret = "B"
    /\ Between(60, args.score, 70) => ret = "C"
    /\ RLt(args.score, Rat(60, 1)) => ret = "D"
    /\ args.score = Rat(8999, 100) => ret = "A"
    /\ args.score = Rat(9000, 100) => ret = "A+"
    /\ args.score = Rat(7999, 100) => ret = "B"
    /\ args.score = Rat(8000, 100) => ret = "A"
    /\ args.score = Rat(6999, 100) => ret = "C"
    /\ args.score = Rat(7000, 100) => ret = "B"
    /\ args.score = Rat(5999, 100) => ret = "D"
    /\ args.score = Rat(6000, 100) => ret = "C"
    /\ \A s \in ScoreInputs :
         RLeq(args.score, s) => Rank(ret) <= Rank(map_rating(s))

C9_Witness ==
  /\ pc = "map_rating"
  /\ args.score = Rat(9000, 100)
  /\ ret = "A+"

(***************************************************************************)
(* Properties of rule_based_suggestions.                                   *)
(***************************************************************************)
\* the rule at position i of RULES triggers on the payload of the call
Triggers(i) ==
  LET p == Predicate(RULES[i].predicate_fn, args.request_payload)
  IN  p.ok /\ p.v

\* C10: rule_based_suggestions never returns an empty sequence; with no
\* rule triggered the result is exactly the fallback message alone, and
\* with a rule triggered the fallback message is not in the result.
C10_NeverEmptyFallback ==
  pc = "rule_based_suggestions" =>
    /\ ret # <<>>
    /\ (\A i \in 1..Len(RULES) : ~Triggers(i)) => ret = <<MsgFallback>>
    /\ (\E i \in 1..Len(RULES) : Triggers(i)) => ~InSeq(MsgFallback, ret)

C10_Witness ==
  /\ pc = "rule_based_suggestions"
  /\ args.request_payload.ismap
  /\ \A i \in 1..Len(RULES) : ~Triggers(i)
  /\ ret = <<MsgFallback>>

\* the rules of the table whose predicate does not raise on the payload
NonRaisingRules ==
  SelectSeq(RULES,
            LAMBDA r : Predicate(r.predicate_fn, args.request_payload).ok)

Raises(i) == ~Predicate(RULES[i].predicate_fn, args.request_payload).ok

\* C11: a predicate that raises counts as not triggered for its rule only;
\* the call returns, and the result is what the table without the raising
\* rules gives on the same payload.
C11_RaisingRuleSkipped ==
  pc = "rule_based_suggestions" =>
    /\ ret = rule_based_suggestions(NonRaisingRules, args.request_payload)
    /\ \A i \in 1..Len(RULES) :
         /\ Raises(i) => ~InSeq(RULES[i].suggestion_text, ret)
         /\ Triggers(i) => InSeq(RULES[i].suggestion_text, ret)

C11_Witness ==
  /\ pc = "rule_based_suggestions"
  /\ args.request_payload.ismap
  /\ \E i \in 1..Len(RULES) : \E j \in (i + 1)..Len(RULES) :
       Raises(i) /\ Triggers(j) /\ InSeq(RULES[j].suggestion_text, ret)
  /\ \E i \in 1..Len(RULES) : \E j \in (i + 1)..Len(RULES) :
       Triggers(i) /\ Raises(j)

\* the position of the first rule of the table that carries the message
FirstRule(text) ==
  CHOOSE i \in 1..Len(RULES) :
    /\ RULES[i].suggestion_text = text
    /\ \A j \in 1..(i - 1) : RULES[j].suggestion_text # text

InTable(text) == \E i \in 1..Len(RULES) : RULES[i].suggestion_text = text

\* C12: the sequence rule_based_suggestions returns holds no string twice,
\* and its entries are in the order in which the first rule carrying each
\* message stands in RULES.
C12_DistinctInTableOrder ==
  pc = "rule_based_suggestions" =>
    /\ \A i \in 1..Len(ret) : \A j \in 1..Len(ret) :
         i # j => ret[i] # ret[j]
    /\ \A i \in 1..Len(ret) : InTable(ret[i]) \/ ret = <<MsgFallback>>
    /\ \A i \in 1..Len(ret) : \A j \in (i + 1)..Len(ret) :
         (InTable(ret[i]) /\ InTable(ret[j]))
           => FirstRule(ret[i]) < FirstRule(ret[j])

C12_Witness ==
  /\ pc = "rule_based_suggestions"
  /\ Len(ret) >= 3
  /\ \A i \in 1..Len(ret) : InTable(ret[i])
  /\ FirstRule(ret[1]) < FirstRule(ret[2])
  /\ FirstRule(ret[2]) < FirstRule(ret[Len(ret)])

\* the scenario payload, in lower case and in other letter cases of its
\* text fields
FieldIs(key, x) == args.request_payload.fields[key] = x

IsSevenRuleScenario ==
  /\ pc = "rule_based_suggestions"
  /\ args.request_payload.ismap
  /\ args.request_payload.fields["transport"] \in {Str(TxtAir), Str(<<"A", "i", "R">>)}
  /\ args.request_payload.materials \in
       {ListValue(<<Str(TxtPlastic)>>), ListValue(<<Str(<<"P", "L", "A", "S", "T", "I", "C">>)>>)}
  /\ args.request_payload.fields["packaging"] \in
       {Str(<<"p", "l", "a", "s", "t", "i", "c", " ", "w", "r", "a", "p">>), Str(<<"P", "l", "a", "s", "t", "i", "c", " ", "W", "R", "A", "P">>)}
  /\ FieldIs("weight_grams", Num(600, 1))
  /\ FieldIs("circularity", Num(40, 1))
  /\ FieldIs("gwp", Num(30, 1))
  /\ FieldIs("cost", Num(60, 1))

\* C14: for transport "air", materials ["plastic"], packaging "plastic
\* wrap", weight_grams 600, circularity 40, gwp 30, cost 60, in any letter
\* case, the result is exactly the seven messages of the air, plastic,
\* packaging-switch, lightweighting, circularity, gwp and cost rules.
C14_SevenRuleScenario ==
  IsSevenRuleScenario =>
    ret = <<MsgAir, MsgPlastic, MsgPackagingSwitch, MsgLightweight,
            MsgCircularity, MsgGwp, MsgCost>>

C14_Witness ==
  /\ IsSevenRuleScenario
  /\ args.request_payload.fields["transport"].s # TxtAir
  /\ args.request_payload.materials.items[1].s # TxtPlastic
  /\ args.request_payload.fields["packaging"].s # <<"p", "l", "a", "s", "t", "i", "c", " ", "w", "r", "a", "p">>
  /\ Len(ret) = 7
  /\ ~InSeq(MsgFallback, ret)

EmptyMapping == Product(Absent, NoList, Absent, Absent, Absent, Absent, Absent)

\* C18: on a mapping, the fallback message is returned only when packaging
\* is "biodegradable" or "compostable" in any letter case and a circularity
\* value is supplied that is at least 60 or is not parseable; the empty
\* mapping gives the packaging-switch and the low-circularity message.
C18_MissingFieldsTrigger ==
  (pc = "rule_based_suggestions" /\ args.request_payload.ismap) =>
    /\ ret = <<MsgFallback>> =>
         /\ args.request_payload.fields["packaging"].t = "str"
         /\ Lower(args.request_payload.fields["packaging"].s)
              \in {TxtBiodegradable, TxtCompostable}
         /\ args.request_payload.fields["circularity"].t # "absent"
         /\ \/ ~Float(args.request_payload.fields["circularity"]).ok
            \/ RLeq(Rat(60, 1),
                    Float(args.request_payload.fields["circularity"]).v)
    /\ args.request_payload = EmptyMapping =>
         ret = <<MsgPackagingSwitch, MsgCircularity>>

C18_Witness ==
  /\ pc = "rule_based_suggestions"
  /\ args.request_payload = EmptyMapping
  /\ ret = <<MsgPackagingSwitch, MsgCircularity>>

(***************************************************************************)
(* Properties of ScorePayload.validate.                                    *)
(***************************************************************************)
Validated == pc = "validate" /\ ~locals.raised

\* the payload of test_missing_required_fields: empty name, negative gwp,
\* cost and weight_grams, circularity above 100, empty transport and packaging
IsMissingFieldsPayload ==
  /\ Validated
  /\ locals.product_name = <<>>
  /\ RLt(locals.gwp, Zero)
  /\ RLt(locals.cost, Zero)
  /\ RLt(locals.weight_grams, Zero)
  /\ RLt(Hundred, locals.circularity)
  /\ locals.transport = <<>>
  /\ locals.packaging = <<>>

IsWellFormedPayload ==
  /\ Validated
  /\ locals.product_name # <<>>
  /\ \A f \in {"gwp", "cost", "circularity", "weight_grams"} :
       RLeq(Zero, locals[f])
  /\ RLeq(locals.circularity, Hundred)
  /\ locals.transport # <<>>
  /\ locals.packaging # <<>>

\* C15: for an empty product_name, negative gwp, cost and weight_grams, a
\* circularity above 100 and empty transport and packaging, validate returns
\* a list with 'product_name is required.', a 'must be >= 0' error,
\* 'circularity must be <= 100.', 'transport is required.' and 'packaging
\* is required.'; a well-formed payload gives the empty list.
C15_ValidateReportsEachProblem ==
  /\ IsMissingFieldsPayload =>
       /\ InSeq(ErrProductName, ret)
       /\ \E f \in {"gwp", "cost", "circularity", "weight_grams"} :
            InSeq(MustBeNonNegative(f), ret)
       /\ InSeq(ErrCircularityMax, ret)
       /\ InSeq(ErrTransport, ret)
       /\ InSeq(ErrPackaging, ret)
  /\ IsWellFormedPayload => ret = <<>>

(***************************************************************************)
(* The engine keeps no state.                                              *)
(***************************************************************************)
\* the result of the call in progress, computed from the configuration the
\* process started with
FreshResult ==
  CASE pc = "parse_weights" ->
         parse_weights(DefaultWeightsInit, args.payload_weights, args.query_args)
    [] pc = "compute_score" ->
         compute_score(args.gwp, args.circularity, args.cost, args.weights)
    [] pc = "rule_based_suggestions" ->
         rule_based_suggestions(RulesInit, args.request_payload)
    [] OTHER -> ret

NoDuplicate(q) == \A i \in 1..Len(q) : \A j \in 1..Len(q) : i # j => q[i] # q[j]

Answered == pc = "score" /\ ret.status = 200

\* the external suggestions that no rule gave, in their order
ExternalOnly ==
  SelectSeq(ret.body.ai_suggestions,
            LAMBDA x : ~InSeq(x, ret.body.rule_suggestions))

\* C13: the merged list of a /score answer holds no duplicate, holds every
\* rule-based suggestion before any external-only suggestion, keeps the
\* first-seen order, and is the rule-based list when the external list is
\* empty.
C13_MergedRuleFirstNoDuplicate ==
  Answered =>
    /\ ret.body.rule_suggestions =
         rule_based_suggestions(RULES, args.request_data)
    /\ NoDuplicate(ret.body.suggestions)
    /\ ret.body.suggestions = ret.body.rule_suggestions \o ExternalOnly
    /\ ret.body.ai_suggestions = <<>> =>
         ret.body.suggestions = ret.body.rule_suggestions

C13_Witness ==
  /\ Answered
  /\ Len(ret.body.rule_suggestions) >= 2
  /\ Len(ExternalOnly) >= 1
  /\ Len(ExternalOnly) < Len(ret.body.ai_suggestions)
  /\ Len(ret.body.suggestions) =
       Len(ret.body.rule_suggestions) + Len(ExternalOnly)

\* the payload of the request breaks a rule of validate
HasValidationErrors(payload) ==
  \/ payload.product_name = <<>>
  \/ \E f \in {"gwp", "cost", "circularity", "weight_grams"} :
       RLt(payload[f], Zero)

RowOfResponse(row, body) ==
  /\ row.sustainability_score = body.sustainability_score
  /\ row.rating = body.rating
  /\ row.suggestions = body.suggestions

C17_Step ==
  /\ pc' = "score" =>
       /\ (~locals'.raised /\ HasValidationErrors(locals')) =>
            /\ ret'.status = 400
            /\ DOMAIN ret'.body = {"error", "details"}
            /\ ret'.body.details # <<>>
            /\ db' = db
       /\ (~locals'.raised /\ ~HasValidationErrors(locals')) =>
            /\ ret'.status = 200
            /\ Len(db') = Len(db) + 1
            /\ SubSeq(db', 1, Len(db)) = db
            /\ RowOfResponse(db'[Len(db')], ret'.body)
       /\ ret'.status # 200 => db' = db
  /\ pc' = "idle" => db' = db

\* C17: in any sequence of POST /score requests, a payload with validation
\* errors gets 400 with the error list, no score and no row; each valid
\* request adds exactly one row holding the sustainability_score, rating
\* and suggestions of its 200 answer; nothing else changes the table.
C17_RowPerValidRequest == [][C17_Step]_vars

C17_Witness ==
  /\ Answered
  /\ Len(db) = 2
  /\ db[1] # db[2]
  /\ RowOfResponse(db[2], ret.body)
  /\ ~RowOfResponse(db[1], ret.body)

=============================================================================
